---- MODULE Spec2Model ----
(***************************************************************************)
(* Model of src/browser/session.ts: the Session presence tracker.          *)
(* Two native timers (checkIdleStateTimer, idleEventTimer), the lock and   *)
(* unlock handler handleLock, and the session hooks, all run on one event  *)
(* loop, so every callback is one atomic action.                           *)
(***************************************************************************)
EXTENDS Integers, Sequences, FiniteSets, TLC

\* Largest value of app.getTickCount() explored.
MaxTick == 4

\* ---------------------------------------------------------------------
\* JavaScript numbers as used by the tracker: a number, undefined, or NaN.
\* ---------------------------------------------------------------------
Num(n) == [t |-> "num", v |-> n]

Undefined == [t |-> "undefined", v |-> 0]

NaN == [t |-> "NaN", v |-> 0]

\* a - b in JavaScript: NaN as soon as one operand is not a number
JsSub(a, b) == IF a.t = "num" /\ b.t = "num" THEN Num(a.v - b.v) ELSE NaN

\* falsy numbers: undefined, NaN and 0
Falsy(x) == x.t # "num" \/ x.v = 0

\* a || b
JsOr(a, b) == IF Falsy(a) THEN b ELSE a

\* ---------------------------------------------------------------------
\* State
\* ---------------------------------------------------------------------
VARIABLES
    platform,             \* process.platform, fixed at construction
    tick,                 \* app.getTickCount()
    lastInput,            \* idle probe: tick count of the last user input
    idleEventTimer,       \* sustain timer  [running, armedAt]
    checkIdleStateTimer,  \* poll timer     [running, armedAt]
    idleStartTime,        \* this.idleStartTime
    idleEndTime,          \* this.idleEndTime
    emitted,              \* events emitted by the latest step, in order
    lastOp,               \* the operation the latest step ran
    wrote,                \* fields of Session assigned by the latest step
    lastCode,             \* <<code>> handed to the latest hook, else <<>>
    lastSample,           \* isIdle() as sampled by the latest poll tick
    lastIdleFlag,         \* isIdle of the latest idle-state-changed event
    lastLockSignal,       \* "none", "lock" or "unlock": latest handleLock
    openSpans,            \* start events not yet closed by an end event
    pollStarts,           \* start events emitted by the poll timer
    sampleEdges,          \* Active->Idle edges in the sampled sequence
    lockRunStarts,        \* start events of the current run of handleLock(true)
    signalsAlternate      \* lock and unlock have alternated, lock first

progVars == <<idleEventTimer, checkIdleStateTimer, idleStartTime, idleEndTime>>

envVars == <<platform, tick, lastInput>>

histVars == <<lastSample, lastIdleFlag, lastLockSignal, openSpans,
              pollStarts, sampleEdges, lockRunStarts, signalsAlternate>>

vars == <<platform, tick, lastInput, idleEventTimer, checkIdleStateTimer,
          idleStartTime, idleEndTime, emitted, lastOp, wrote, lastCode,
          lastSample, lastIdleFlag, lastLockSignal, openSpans, pollStarts,
          sampleEdges, lockRunStarts, signalsAlternate>>

\* ---------------------------------------------------------------------
\* nativeTimer: reset() (re)starts the countdown, stop() cancels it.
\* ---------------------------------------------------------------------
reset(now) == [running |-> TRUE, armedAt |-> now]

stop_forgotten(t) == t

stop(t) == [running |-> FALSE, armedAt |-> 0]

\* a running timer fires once its interval has elapsed since it was armed
Due(t) == t.running /\ tick > t.armedAt

\* ---------------------------------------------------------------------
\* idleState probe
\* ---------------------------------------------------------------------
elapsedTime == tick - lastInput

\* ---------------------------------------------------------------------
\* Events
\* ---------------------------------------------------------------------
fireIdleEvent(isIdle, elapsed) ==
    [type |-> "idle-state-changed",
     elapsedTime |-> JsOr(elapsed, Num(elapsedTime)),
     isIdle |-> isIdle,
     topic |-> "system"]

fireSessionEndEvent(reason) ==
    [type |-> "session-end", reason |-> reason, topic |-> "system"]

fireSessionEvent(reason) ==
    [type |-> "session-changed", reason |-> reason, topic |-> "system"]

IsIdleEvent(e) == e.type = "idle-state-changed"

IdleEvents(es) == SelectSeq(es, IsIdleEvent)

IsTrueEvent(e) == IsIdleEvent(e) /\ e.isIdle

IsFalseEvent(e) == IsIdleEvent(e) /\ ~e.isIdle

TrueEvents(es) == SelectSeq(es, IsTrueEvent)

FalseEvents(es) == SelectSeq(es, IsFalseEvent)

\* ---------------------------------------------------------------------
\* Callbacks, as functions from the current state to their outcome
\* ---------------------------------------------------------------------
Outcome(iet, cist, ist, iend, es, w) ==
    [idleEventTimer |-> iet, checkIdleStateTimer |-> cist,
     idleStartTime |-> ist, idleEndTime |-> iend, events |-> es, wrote |-> w]

idleEventCallback_restamps ==
    Outcome([idleEventTimer EXCEPT !.armedAt = tick], checkIdleStateTimer,
            Num(tick), idleEndTime,
            <<fireIdleEvent(TRUE, JsSub(Num(tick), idleStartTime))>>,
            {"idleStartTime"})

idleEventCallback_oneShot ==
    Outcome(stop(idleEventTimer), checkIdleStateTimer,
            idleStartTime, idleEndTime,
            <<fireIdleEvent(TRUE, JsSub(Num(tick), idleStartTime))>>, {})

\* idleEventTimer callback
idleEventCallback ==
    Outcome([idleEventTimer EXCEPT !.armedAt = tick], checkIdleStateTimer,
            idleStartTime, idleEndTime,
            <<fireIdleEvent(TRUE, JsSub(Num(tick), idleStartTime))>>, {})

timeNow_detection(tickCount, elapsed) == tickCount

timeNow_signSlip(tickCount, elapsed) == tickCount + elapsed

timeNow(tickCount, elapsed) == tickCount - elapsed

startsIdle_unguarded(isIdle, isTimerRunning) == isIdle

startsIdle(isIdle, isTimerRunning) == isIdle /\ ~isTimerRunning

endsIdle_unguarded(isIdle, isTimerRunning) == ~isIdle

endsIdle(isIdle, isTimerRunning) == ~isIdle /\ isTimerRunning

\* checkIdleStateTimer callback
checkIdleStateCallback(isIdle) ==
    LET isTimerRunning == idleEventTimer.running
        now == timeNow(tick, elapsedTime)
        rearmed == [checkIdleStateTimer EXCEPT !.armedAt = tick]
    IN  IF startsIdle(isIdle, isTimerRunning)
        THEN Outcome(reset(tick), rearmed, Num(now), idleEndTime,
                     <<fireIdleEvent(TRUE, Undefined)>>, {"idleStartTime"})
        ELSE IF endsIdle(isIdle, isTimerRunning)
        THEN Outcome(stop(idleEventTimer), rearmed, idleStartTime, Num(now),
                     <<fireIdleEvent(FALSE, JsSub(Num(now), idleStartTime))>>,
                     {"idleEndTime"})
        ELSE Outcome(idleEventTimer, rearmed, idleStartTime, idleEndTime,
                     <<>>, {})

lockStartsIdle_unguarded(isTimerRunning) == TRUE

lockStartsIdle_inverted(isTimerRunning) == isTimerRunning

lockStartsIdle(isTimerRunning) == ~isTimerRunning

handleLock_pollNotStopped(locked) ==
    IF locked
    THEN IF lockStartsIdle(idleEventTimer.running)
         THEN Outcome(reset(tick), checkIdleStateTimer, Num(tick),
                      idleEndTime, <<fireIdleEvent(TRUE, Undefined)>>,
                      {"idleStartTime"})
         ELSE Outcome(idleEventTimer, checkIdleStateTimer,
                      idleStartTime, idleEndTime, <<>>, {})
    ELSE Outcome(stop(idleEventTimer), reset(tick), idleStartTime, Num(tick),
                 <<fireIdleEvent(FALSE, JsSub(Num(tick), idleStartTime))>>,
                 {"idleEndTime"})

handleLock(locked) ==
    IF locked
    THEN IF lockStartsIdle(idleEventTimer.running)
         THEN Outcome(reset(tick), stop(checkIdleStateTimer), Num(tick),
                      idleEndTime, <<fireIdleEvent(TRUE, Undefined)>>,
                      {"idleStartTime"})
         ELSE Outcome(idleEventTimer, stop(checkIdleStateTimer),
                      idleStartTime, idleEndTime, <<>>, {})
    ELSE Outcome(stop(idleEventTimer), reset(tick), idleStartTime, Num(tick),
                 <<fireIdleEvent(FALSE, JsSub(Num(tick), idleStartTime))>>,
                 {"idleEndTime"})

NoChange_stopsPoll ==
    Outcome(idleEventTimer, stop(checkIdleStateTimer), idleStartTime,
            idleEndTime, <<>>, {})

\* no callback of the tracker ran
NoChange == Outcome(idleEventTimer, checkIdleStateTimer, idleStartTime,
                    idleEndTime, <<>>, {})

\* WM_QUERYENDSESSION reason code -> session-end reason
endReason(code) ==
    CASE code = 0 -> "logoff"
      [] code = 1 -> "restart or shutdown"
      [] OTHER -> "unknown"

\* WM_WTSSESSION_CHANGE code -> session-changed reason
changeReason(code) ==
    CASE code = 3 -> "remote-connect"
      [] code = 4 -> "remote-disconnect"
      [] code = 7 -> "lock"
      [] code = 8 -> "unlock"
      [] OTHER -> "unknown"

\* ---------------------------------------------------------------------
\* Bookkeeping shared by the actions
\* ---------------------------------------------------------------------
Max(a, b) == IF a >= b THEN a ELSE b

\* install the outcome r of operation op; extra are the events the hook
\* itself emits after the callback returned
Commit(op, r, extra) ==
    LET es == r.events \o extra
        ie == IdleEvents(es)
        nTrue == Len(TrueEvents(es))
        nFalse == Len(FalseEvents(es))
    IN  /\ idleEventTimer' = r.idleEventTimer
        /\ checkIdleStateTimer' = r.checkIdleStateTimer
        /\ idleStartTime' = r.idleStartTime
        /\ idleEndTime' = r.idleEndTime
        /\ emitted' = es
        /\ wrote' = r.wrote
        /\ lastOp' = op
        /\ lastIdleFlag' = IF ie = <<>> THEN lastIdleFlag
                           ELSE ie[Len(ie)].isIdle
        /\ openSpans' = IF op = "heartbeat" THEN openSpans
                        ELSE Max(0, openSpans + nTrue - nFalse)
        /\ pollStarts' = IF op = "poll" THEN pollStarts + nTrue
                         ELSE pollStarts
        /\ lastLockSignal' = IF op \in {"lock", "unlock"} THEN op
                             ELSE lastLockSignal
        /\ lockRunStarts' = IF op = "lock" THEN lockRunStarts + nTrue ELSE 0
        /\ signalsAlternate' =
              IF op = "lock"
              THEN signalsAlternate /\ lastLockSignal # "lock"
              ELSE IF op = "unlock"
              THEN signalsAlternate /\ lastLockSignal = "lock"
              ELSE signalsAlternate
        /\ UNCHANGED envVars

\* ---------------------------------------------------------------------
\* Initial state: the state the constructor leaves
\* ---------------------------------------------------------------------
Platforms == {"win32", "darwin", "linux"}

Init ==
    /\ platform \in Platforms
    /\ tick = 0
    /\ lastInput = 0
    /\ idleEventTimer = stop(reset(0))
    /\ checkIdleStateTimer = reset(0)
    /\ idleStartTime = Undefined
    /\ idleEndTime = Undefined
    /\ emitted = <<>>
    /\ lastOp = "init"
    /\ wrote = {}
    /\ lastSample = FALSE
    /\ lastIdleFlag = FALSE
    /\ lastLockSignal = "none"
    /\ openSpans = 0
    /\ pollStarts = 0
    /\ sampleEdges = 0
    /\ lockRunStarts = 0
    /\ lastCode = <<>>
    /\ signalsAlternate = TRUE

\* ---------------------------------------------------------------------
\* Actions
\* ---------------------------------------------------------------------
\* the environment: time passes
AdvanceClock ==
    /\ tick < MaxTick
    /\ tick' = tick + 1
    /\ emitted' = <<>>
    /\ lastOp' = "clock"
    /\ wrote' = {}
    /\ lastCode' = <<>>
    /\ UNCHANGED <<platform, lastInput, progVars, histVars>>

\* the environment: the user touches mouse or keyboard
UserInput ==
    /\ lastInput < tick
    /\ lastInput' = tick
    /\ emitted' = <<>>
    /\ lastOp' = "input"
    /\ wrote' = {}
    /\ lastCode' = <<>>
    /\ UNCHANGED <<platform, tick, progVars, histVars>>

\* the poll timer fires
PollTick ==
    \E isIdle \in BOOLEAN :
        /\ Due(checkIdleStateTimer)
        /\ Commit("poll", checkIdleStateCallback(isIdle), <<>>)
        /\ lastSample' = isIdle
        /\ lastCode' = <<>>
        /\ sampleEdges' = IF ~lastSample /\ isIdle THEN sampleEdges + 1
                          ELSE sampleEdges

\* the sustain timer fires
Heartbeat ==
    /\ Due(idleEventTimer)
    /\ Commit("heartbeat", idleEventCallback, <<>>)
    /\ lastCode' = <<>>
    /\ UNCHANGED <<lastSample, sampleEdges>>

SessionCodes == {0, 3, 4, 7, 8}

\* win32: WM_WTSSESSION_CHANGE hook
WmWtsSessionChange ==
    \E code \in SessionCodes :
        /\ platform = "win32"
        /\ LET reason == changeReason(code)
               r == IF reason = "lock" THEN handleLock(TRUE)
                    ELSE IF reason = "unlock" THEN handleLock(FALSE)
                    ELSE NoChange
               op == IF reason \in {"lock", "unlock"} THEN reason
                     ELSE "session-changed"
           IN  Commit(op, r, <<fireSessionEvent(reason)>>)
        /\ lastCode' = <<code>>
        /\ UNCHANGED <<lastSample, sampleEdges>>

EndCodes == {0, 1, 2}

\* win32: WM_QUERYENDSESSION hook
WmQueryEndSession ==
    \E code \in EndCodes :
        /\ platform = "win32"
        /\ Commit("session-end", NoChange,
                  <<fireSessionEndEvent(endReason(code))>>)
        /\ lastCode' = <<code>>
        /\ UNCHANGED <<lastSample, sampleEdges>>

\* darwin: com.apple.screenIsLocked
ScreenIsLocked ==
    /\ platform = "darwin"
    /\ Commit("lock", handleLock(TRUE), <<fireSessionEvent("lock")>>)
    /\ lastCode' = <<>>
    /\ UNCHANGED <<lastSample, sampleEdges>>

\* darwin: com.apple.screenIsUnlocked
ScreenIsUnlocked ==
    /\ platform = "darwin"
    /\ Commit("unlock", handleLock(FALSE), <<fireSessionEvent("unlock")>>)
    /\ lastCode' = <<>>
    /\ UNCHANGED <<lastSample, sampleEdges>>

Next ==
    \/ AdvanceClock
    \/ UserInput
    \/ PollTick
    \/ Heartbeat
    \/ WmWtsSessionChange
    \/ WmQueryEndSession
    \/ ScreenIsLocked
    \/ ScreenIsUnlocked

Spec == Init /\ [][Next]_vars

\* time passes, and a native timer that is due does fire
SpecLive ==
    /\ Init
    /\ [][Next]_vars
    /\ WF_vars(AdvanceClock)
    /\ WF_vars(Heartbeat)

TypeOK ==
    /\ tick \in 0..MaxTick
    /\ lastInput \in 0..tick
    /\ idleEventTimer.running \in BOOLEAN
    /\ checkIdleStateTimer.running \in BOOLEAN

\* ---------------------------------------------------------------------
\* Properties
\* ---------------------------------------------------------------------

\* C1: while no lock or unlock signal has been received, the number of
\* start events emitted by the poll timer equals the number of
\* Active->Idle edges in the sequence of probe samples.
C1_PollStartsEqualEdges ==
    lastLockSignal = "none" => pollStarts = sampleEdges

C1_Witness ==
    /\ lastLockSignal = "none"
    /\ lastOp = "poll"
    /\ pollStarts = 2
    /\ sampleEdges = 2

\* C2: the sustain timer is running exactly when the latest
\* idle-state-changed event said isIdle:true (false before any event).
C2_SustainIffIdleFlag ==
    idleEventTimer.running <=> lastIdleFlag

C2_Witness ==
    /\ lastOp = "unlock"
    /\ pollStarts >= 1
    /\ ~idleEventTimer.running
    /\ ~lastIdleFlag

\* C3: handleLock(true) while the sustain timer is running emits no
\* idle-state-changed event, leaves idleStartTime alone and leaves the poll
\* timer stopped; a run of handleLock(true) calls emits at most one start.
C3_LockWhileIdleIsSilent ==
    [][lastOp' = "lock" =>
         /\ lockRunStarts' <= 1
         /\ idleEventTimer.running =>
              /\ IdleEvents(emitted') = <<>>
              /\ "idleStartTime" \notin wrote'
              /\ idleStartTime' = idleStartTime
              /\ ~checkIdleStateTimer'.running]_vars

C3_Witness ==
    /\ lastOp = "lock"
    /\ lockRunStarts = 1
    /\ IdleEvents(emitted) = <<>>
    /\ idleEventTimer.running
    /\ ~checkIdleStateTimer.running

\* C4: an isIdle:false event emitted by handleLock(false) closes a start
\* event that no earlier end event has closed.
C4_UnlockClosesOpenSpan ==
    [][(lastOp' = "unlock" /\ FalseEvents(emitted') # <<>>)
         => openSpans >= 1]_vars

\* C5: when an isIdle:false event is emitted and idleStartTime has been
\* set, idleEndTime - idleStartTime >= 0.
C5_NonNegativeSpan ==
    (FalseEvents(emitted) # <<>> /\ idleStartTime.t = "num") =>
        /\ idleEndTime.t = "num"
        /\ idleEndTime.v - idleStartTime.v >= 0

C5_Witness ==
    /\ lastOp = "poll"
    /\ FalseEvents(emitted) # <<>>
    /\ idleStartTime.t = "num"
    /\ idleEndTime.v - idleStartTime.v > 0

\* C6: a heartbeat is emitted only while the sustain timer is running, and
\* it changes neither idleStartTime, idleEndTime nor whether a timer runs.
C6_HeartbeatFrame ==
    [][lastOp' = "heartbeat" =>
         /\ idleEventTimer.running
         /\ Len(emitted') = 1
         /\ IsTrueEvent(emitted'[1])
         /\ wrote' = {}
         /\ idleStartTime' = idleStartTime
         /\ idleEndTime' = idleEndTime
         /\ idleEventTimer'.running = idleEventTimer.running
         /\ checkIdleStateTimer'.running = checkIdleStateTimer.running]_vars

C6_Witness ==
    /\ lastOp = "heartbeat"
    /\ TrueEvents(emitted) # <<>>
    /\ idleEventTimer.running
    /\ idleStartTime.t = "num"

\* C7: the poll timer is running exactly when the latest lock signal was
\* not a lock, and no poll tick fires while locked.
C7_PollSuspendedWhileLocked ==
    /\ checkIdleStateTimer.running <=> lastLockSignal # "lock"
    /\ lastOp = "poll" => lastLockSignal # "lock"

C7_Witness ==
    /\ lastOp = "poll"
    /\ lastLockSignal = "unlock"
    /\ checkIdleStateTimer.running

\* C8: every isIdle:false event carries elapsedTime equal to
\* idleEndTime - idleStartTime as the two fields stand at emission.
C8_EndEventCarriesDifference ==
    \A i \in 1..Len(emitted) :
        IsFalseEvent(emitted[i]) =>
            emitted[i].elapsedTime = JsSub(idleEndTime, idleStartTime)

\* C9: one poll tick emits at most one event, never both a start and an
\* end, and when the sample agrees with the sustain timer it emits nothing
\* and changes no field and no timer's running status.
C9_OneTransitionPerTick ==
    [][lastOp' = "poll" =>
         /\ Len(emitted') <= 1
         /\ ~(TrueEvents(emitted') # <<>> /\ FalseEvents(emitted') # <<>>)
         /\ (lastSample' = idleEventTimer.running) =>
              /\ emitted' = <<>>
              /\ wrote' = {}
              /\ idleStartTime' = idleStartTime
              /\ idleEndTime' = idleEndTime
              /\ idleEventTimer' = idleEventTimer
              /\ checkIdleStateTimer'.running
                   = checkIdleStateTimer.running]_vars

C9_Witness ==
    /\ lastOp = "poll"
    /\ lastSample
    /\ idleEventTimer.running
    /\ emitted = <<>>

\* C10: a step writes idleStartTime iff it flips the idle flag from false
\* to true, and writes idleEndTime iff it flips it from true to false.
C10_TimesWrittenOnFlips ==
    [][/\ ("idleStartTime" \in wrote')
            <=> (~idleEventTimer.running /\ idleEventTimer'.running)
       /\ ("idleEndTime" \in wrote')
            <=> (idleEventTimer.running /\ ~idleEventTimer'.running)]_vars

\* C11: while the tracker stays idle (no Idle->Active poll transition and
\* no handleLock(false)), every idle state that is not itself the emission
\* of a heartbeat, and in which time can still pass or the sustain timer is
\* due, is followed by one more heartbeat; every heartbeat carries
\* elapsedTime = tick count - idleStartTime.
C11_IdleEnded ==
    \/ lastOp = "unlock"
    \/ lastOp = "poll" /\ FalseEvents(emitted) # <<>>

C11_HeartbeatsRecur ==
    /\ (/\ lastIdleFlag
        /\ lastOp # "heartbeat"
        /\ (tick < MaxTick \/ tick > idleEventTimer.armedAt))
           ~> (C11_IdleEnded \/ lastOp = "heartbeat")
    /\ [](lastOp = "heartbeat" =>
            /\ Len(emitted) = 1
            /\ IsTrueEvent(emitted[1])
            /\ emitted[1].elapsedTime = JsSub(Num(tick), idleStartTime))

C11_Witness ==
    /\ lastOp = "heartbeat"
    /\ idleEventTimer.running
    /\ idleStartTime.t = "num"
    /\ emitted[1].elapsedTime = Num(tick - idleStartTime.v)
    /\ tick - idleStartTime.v >= 2

\* C12: the sustain timer goes from stopped to running only in a poll tick
\* that samples idle or in handleLock(true), and from running to stopped
\* only in a poll tick that samples active or in handleLock(false).
C12_SustainTimerEdges ==
    [][/\ (~idleEventTimer.running /\ idleEventTimer'.running) =>
            \/ lastOp' = "lock"
            \/ lastOp' = "poll" /\ lastSample'
                  /\ TrueEvents(emitted') # <<>>
       /\ (idleEventTimer.running /\ ~idleEventTimer'.running) =>
            \/ lastOp' = "unlock"
            \/ lastOp' = "poll" /\ ~lastSample'
                  /\ FalseEvents(emitted') # <<>>]_vars

C12_Witness ==
    /\ lastOp = "poll"
    /\ ~lastSample
    /\ ~idleEventTimer.running
    /\ wrote = {"idleEndTime"}

\* C13: a poll tick that samples idle while the sustain timer is stopped
\* sets idleStartTime to tick count - probe elapsed time, emits exactly one
\* isIdle:true event carrying the probe's elapsed time, and starts the
\* sustain timer.
C13_PollStartBackDated ==
    [][(lastOp' = "poll" /\ lastSample' /\ ~idleEventTimer.running) =>
         /\ idleStartTime' = Num(tick - elapsedTime)
         /\ Len(emitted') = 1
         /\ IsTrueEvent(emitted'[1])
         /\ emitted'[1].elapsedTime = Num(elapsedTime)
         /\ idleEventTimer'.running]_vars

C13_Witness ==
    /\ lastOp = "poll"
    /\ wrote = {"idleStartTime"}
    /\ idleStartTime.v < tick
    /\ idleStartTime.v = lastInput
    /\ TrueEvents(emitted) # <<>>

\* C14: handleLock(true) while the sustain timer is stopped stops the poll
\* timer, sets idleStartTime to the tick count, emits exactly one
\* isIdle:true event and starts the sustain timer, whatever the probe says.
C14_LockStartsIdle ==
    [][(lastOp' = "lock" /\ ~idleEventTimer.running) =>
         /\ ~checkIdleStateTimer'.running
         /\ idleStartTime' = Num(tick)
         /\ Len(IdleEvents(emitted')) = 1
         /\ IsTrueEvent(emitted'[1])
         /\ emitted'[1].elapsedTime = Num(elapsedTime)
         /\ idleEventTimer'.running]_vars

C14_Witness ==
    /\ lastOp = "lock"
    /\ wrote = {"idleStartTime"}
    /\ idleStartTime = Num(tick)
    /\ lastInput < tick
    /\ ~lastSample
    /\ idleEventTimer.running

\* C15: a session-changed signal with reason lock or unlock runs
\* handleLock and then emits session-changed with that reason; any other
\* session-changed signal and every session-end signal emits only its own
\* event and leaves both times and both timers as they were.
C15_SessionSignalsFrame ==
    [][/\ lastOp' \in {"lock", "unlock"} =>
            /\ emitted' # <<>>
            /\ emitted'[Len(emitted')] = fireSessionEvent(lastOp')
            /\ Len(IdleEvents(emitted')) = Len(emitted') - 1
            /\ checkIdleStateTimer'.running = (lastOp' = "unlock")
            /\ idleEventTimer'.running = (lastOp' = "lock")
       /\ lastOp' \in {"session-changed", "session-end"} =>
            /\ Len(emitted') = 1
            /\ emitted'[1].type = lastOp'
            /\ emitted'[1].reason \notin {"lock", "unlock"}
            /\ wrote' = {}
            /\ progVars' = progVars
       /\ (lastCode' # <<>> /\ platform = "win32") =>
            /\ (lastOp' = "lock") = (lastCode' = <<7>> /\ emitted'[1].type # "session-end")
            /\ (lastOp' = "unlock") = (lastCode' = <<8>> /\ emitted'[1].type # "session-end")]_vars

C15_Witness ==
    /\ lastOp = "session-changed"
    /\ emitted = <<fireSessionEvent("remote-connect")>>
    /\ idleEventTimer.running
    /\ idleStartTime.t = "num"

\* C16: every emitted session-end reason is one of logoff,
\* restart-or-shutdown, unknown; every emitted session-changed reason is one
\* of remote-connect, remote-disconnect, lock, unlock, unknown; a code that
\* is not recognised yields reason unknown and the event is still emitted.
C16_ReasonsClosed ==
    /\ \A i \in 1..Len(emitted) :
         /\ emitted[i].type = "session-end" =>
              emitted[i].reason
                 \in {"logoff", "restart-or-shutdown", "unknown"}
         /\ emitted[i].type = "session-changed" =>
              emitted[i].reason
                 \in {"remote-connect", "remote-disconnect", "lock",
                      "unlock", "unknown"}
    /\ (lastOp = "session-end" /\ lastCode[1] \notin {0, 1}) =>
          emitted = <<fireSessionEndEvent("unknown")>>
    /\ (lastCode # <<>> /\ lastOp # "session-end"
            /\ lastCode[1] \notin {3, 4, 7, 8}) =>
          emitted = <<fireSessionEvent("unknown")>>

\* C17: handleLock(false) before idleStartTime was ever set emits exactly
\* one isIdle:false event whose elapsedTime is now - idleStartTime, sets
\* idleEndTime to the tick count, leaves the sustain timer stopped and the
\* poll timer running.
C17_UnlockBeforeAnyIdle ==
    [][(lastOp' = "unlock" /\ idleStartTime = Undefined) =>
         /\ Len(IdleEvents(emitted')) = 1
         /\ IsFalseEvent(emitted'[1])
         /\ emitted'[1].elapsedTime = JsSub(Num(tick), idleStartTime)
         /\ idleEndTime' = Num(tick)
         /\ ~idleEventTimer'.running
         /\ checkIdleStateTimer'.running]_vars

\* C18: at least one of the two timers is running.
C18_SomeTimerRuns ==
    idleEventTimer.running \/ checkIdleStateTimer.running

C18_Witness ==
    /\ lastOp = "heartbeat"
    /\ idleEventTimer.running
    /\ ~checkIdleStateTimer.running

\* C19: while the latest lock signal is a lock, no isIdle:false event is
\* emitted; the only idle-state-changed events are the start event of the
\* lock itself and heartbeats.
C19_NoEndWhileLocked ==
    lastLockSignal = "lock" =>
        /\ FalseEvents(emitted) = <<>>
        /\ IdleEvents(emitted) # <<>> => lastOp \in {"lock", "heartbeat"}

C19_Witness ==
    /\ lastLockSignal = "lock"
    /\ lastOp = "heartbeat"
    /\ idleStartTime.t = "num"
    /\ lastInput > idleStartTime.v

\* C20: while lock and unlock signals have alternated, lock first, the
\* start and end events alternate, start first, and every heartbeat lies
\* inside an open span.
C20_EventsAlternate ==
    [][signalsAlternate' =>
         /\ (lastOp' # "heartbeat" /\ TrueEvents(emitted') # <<>>) =>
               (openSpans = 0 /\ Len(IdleEvents(emitted')) = 1)
         /\ FalseEvents(emitted') # <<>> =>
               (openSpans = 1 /\ Len(IdleEvents(emitted')) = 1)
         /\ lastOp' = "heartbeat" => openSpans = 1]_vars

C20_Witness ==
    /\ signalsAlternate
    /\ lastLockSignal = "unlock"
    /\ lastOp = "heartbeat"
    /\ openSpans = 1
====
